---- MODULE Spec2Model ----
(***************************************************************************)
(* Inventory ledger and production batch lifecycle of the backend          *)
(* (backend/src/resolvers/mutation.rs).  Every GraphQL mutation is a       *)
(* request handler that runs its SQL statements one after another against  *)
(* a shared PostgreSQL store; several handlers run at once.  A handler is  *)
(* a process p; each SQL statement (or group of statements that touch only *)
(* the handler's own uncommitted rows) is one step.                        *)
(*                                                                         *)
(* Store model (PostgreSQL, default READ COMMITTED): the four tables hold  *)
(* the committed rows; tx[p] holds the rows process p has written and not  *)
(* yet committed.  A statement of p reads the committed rows overlaid with *)
(* tx[p]; an UPDATE of a row waits while another transaction holds an      *)
(* uncommitted write of that row; commit publishes tx[p]; dropping the     *)
(* sqlx Transaction without commit (an early return, or `?` on an error)   *)
(* rolls it back.                                                          *)
(***************************************************************************)
EXTENDS Integers, Sequences, FiniteSets, TLC

\* ------------------------------------------------------------------ bounds
NumProcs == 2
MaxItems == 2
MaxQty == 2
MaxCost == 2
MaxLines == 2
MaxLogs == 3
MaxBatches == 2
MaxDay == 2
\* the places a decimal quotient is kept to (a BigDecimal keeps a hundred digits)
DecimalScale == 1000
\* how far behind the calendar a wall clock may read, in days
ClockSkew == 1

\* ------------------------------------------------------- program constants
\* format!("{}-{:03}", batch_prefix, sequence): minimum width of the sequence
PadWidth == 3
\* parts.len() == 3 in the sequence parser
BatchNumberParts == 3
\* the hours num_hours() counts for one day
HoursPerDay == 24

\* i32::MAX, the largest value parts[2].parse::<i32>() accepts
I32Max == 2147483647

Procs == 1..NumProcs
ItemIds == 1..MaxItems
\* an item id that never resolves to a row (a uuid no insert ever returned)
GhostId == MaxItems + 1
AnyItemId == ItemIds \cup {GhostId}
BatchIds == 1..MaxBatches
GhostBatchId == MaxBatches + 1
AnyBatchId == BatchIds \cup {GhostBatchId}
Names == {"flour", "bread"}

\* Option<T>: None is <<>>, Some(v) is <<v>>
None == <<>>
Some(v) == <<v>>
IsSome(o) == o # <<>>
UnwrapOr(o, d) == IF o = <<>> THEN d ELSE o[1]
\* SQL COALESCE($n, column)
Coalesce(o, col) == IF o = <<>> THEN col ELSE o[1]

VARIABLES
    inventory,                     \* table inventory: id -> row
    inventory_logs,                \* table inventory_logs, in insertion order
    production_batches,            \* table production_batches: id -> row
    production_batch_ingredients,  \* table production_batch_ingredients
    today,                         \* the calendar date Utc::now() falls on
    pc,                            \* per handler: the statement it is about to run
    input,                         \* per handler: the mutation's input object
    local,                         \* per handler: its local variables
    tx,                            \* per handler: its uncommitted writes
    result                         \* per handler: what its last call returned

vars == <<inventory, inventory_logs, production_batches,
          production_batch_ingredients, today, pc, input, local, tx, result>>

db == <<inventory, inventory_logs, production_batches, production_batch_ingredients>>

\* ------------------------------------------------------------ pure helpers
RECURSIVE SumSeq(_)
SumSeq(s) == IF s = <<>> THEN 0 ELSE s[1] + SumSeq(Tail(s))

\* sum of the movement quantities of item i in a log
MovementSum(logs, i) ==
    SumSeq([k \in 1..Len(logs) |->
              IF logs[k].inventory_id = i THEN logs[k].quantity ELSE 0])

\* decimal digits of a natural number, most significant first
RECURSIVE Digits(_)
Digits(n) == IF n < 10 THEN <<n>> ELSE Digits(n \div 10) \o <<n % 10>>

RECURSIVE ZeroPad(_, _)
ZeroPad(d, w) == IF Len(d) >= w THEN d ELSE ZeroPad(<<0>> \o d, w)

\* format!("{}-{:03}", batch_prefix, sequence) with batch_prefix = "BATCH-<date>":
\* the string is kept as its parts, the date and the digits of the sequence
FormatBatchNumber(date, sequence) ==
    [date |-> date, nnn |-> ZeroPad(Digits(sequence), PadWidth)]

RECURSIVE DigitsValue(_)
DigitsValue(d) ==
    IF d = <<>> THEN 0 ELSE DigitsValue(SubSeq(d, 1, Len(d) - 1)) * 10 + d[Len(d)]

\* the characters of a sequence part: the digits are 0..9, Dash is '-' and Letter
\* any character after the digits; their order is the order of the characters
Dash == -1
Letter == 10

\* a digit string without its leading zeros
RECURSIVE Significant(_)
Significant(d) == IF d # <<>> /\ d[1] = 0 THEN Significant(Tail(d)) ELSE d

\* the number a digit string denotes is above i32::MAX
ExceedsI32(d) ==
    LET s == Significant(d)
        max == Digits(I32Max)
    IN \/ Len(s) > Len(max)
       \/ Len(s) = Len(max) /\ \E k \in 1..Len(s) :
             s[k] > max[k] /\ \A j \in 1..(k - 1) : s[j] = max[j]

ParseI32_DigitsOnly(d) ==
    LET digits == SelectSeq(d, LAMBDA c : c \in 0..9)
    IN IF ExceedsI32(digits) THEN 0 ELSE DigitsValue(digits)
\* parts[2].parse::<i32>().unwrap_or(0): an empty string, a character that is
\* not a digit, or a value above i32::MAX is a parse error
ParseI32OrZero(d) ==
    IF d = <<>> \/ \E k \in 1..Len(d) : d[k] \notin 0..9 THEN 0
    ELSE IF ExceedsI32(d) THEN 0 ELSE DigitsValue(d)

\* s.split('-'): the pieces of s between its dashes (one empty piece for "")
RECURSIVE SplitOnDash(_)
SplitOnDash(s) ==
    IF \A k \in 1..Len(s) : s[k] # Dash THEN <<s>>
    ELSE LET k == CHOOSE j \in 1..Len(s) : s[j] = Dash /\ \A i \in 1..(j - 1) : s[i] # Dash
         IN <<SubSeq(s, 1, k - 1)>> \o SplitOnDash(SubSeq(s, k + 1, Len(s)))

\* string order of two digit strings (ORDER BY batch_number compares text)
RECURSIVE TextLess(_, _)
TextLess(a, b) ==
    IF a = <<>> THEN b # <<>>
    ELSE IF b = <<>> THEN FALSE
    ELSE IF a[1] # b[1] THEN a[1] < b[1]
    ELSE TextLess(Tail(a), Tail(b))

\* ------------------------------------------------------------- the store
\* a handler that is not running, and the values its variables then hold
NoInput == [op |-> "none"]
NoLocal == [i |-> 0, batch_number |-> None, batch_id |-> None, row |-> None]
NoTx == [inventory |-> <<>>, logs |-> <<>>, batches |-> <<>>, ingredients |-> <<>>]
NoResult == [ret |-> "none", success |-> FALSE, message |-> "",
             batch_id |-> None, batch_number |-> None]

\* Ok(XxxResult { success, message, batch_id, batch_number })
OkResult(success, message, batch_id, batch_number) ==
    [ret |-> "Ok", success |-> success, message |-> message,
     batch_id |-> batch_id, batch_number |-> batch_number]
\* Err(e): `?` on a failed statement, surfaced as a GraphQL error
ErrResult(message) ==
    [ret |-> "Err", success |-> FALSE, message |-> message,
     batch_id |-> None, batch_number |-> None]

\* what a statement of handler p sees: committed rows overlaid with p's own writes
ItemExists(p, i) == i \in DOMAIN tx[p].inventory \/ i \in DOMAIN inventory
ItemRow(p, i) == IF i \in DOMAIN tx[p].inventory THEN tx[p].inventory[i] ELSE inventory[i]
BatchExists(p, b) == b \in DOMAIN tx[p].batches \/ b \in DOMAIN production_batches
BatchRow(p, b) ==
    IF b \in DOMAIN tx[p].batches THEN tx[p].batches[b] ELSE production_batches[b]

\* an UPDATE of a row waits for the transaction holding an uncommitted write of it
ItemRowFree(p, i) == \A q \in Procs \ {p} : i \notin DOMAIN tx[q].inventory
BatchRowFree(p, b) == \A q \in Procs \ {p} : b \notin DOMAIN tx[q].batches

\* function f with key k (added or replaced) mapped to v
Put(f, k, v) == [x \in DOMAIN f \cup {k} |-> IF x = k THEN v ELSE f[x]]
\* committed table overlaid with a transaction's rows
Overlay(table, rows) ==
    [x \in DOMAIN table \cup DOMAIN rows |-> IF x \in DOMAIN rows THEN rows[x] ELSE table[x]]

Idle(p) == pc[p] = "idle"

\* tx.commit(): the handler's writes become the committed rows, and it returns r
Commit(p, r) ==
    /\ inventory' = Overlay(inventory, tx[p].inventory)
    /\ inventory_logs' = inventory_logs \o tx[p].logs
    /\ production_batches' = Overlay(production_batches, tx[p].batches)
    /\ production_batch_ingredients' = production_batch_ingredients \o tx[p].ingredients
    /\ tx' = [tx EXCEPT ![p] = NoTx]
    /\ pc' = [pc EXCEPT ![p] = "idle"]
    /\ local' = [local EXCEPT ![p] = NoLocal]
    /\ result' = [result EXCEPT ![p] = r]
    /\ input' = [input EXCEPT ![p] = NoInput]
    /\ UNCHANGED today

Rollback_Autocommit(p, r) == Commit(p, r)
Rollback_LeavesOpen(p, r) ==
    /\ pc' = [pc EXCEPT ![p] = "idle"]
    /\ local' = [local EXCEPT ![p] = NoLocal]
    /\ result' = [result EXCEPT ![p] = r]
    /\ input' = [input EXCEPT ![p] = NoInput]
    /\ UNCHANGED <<db, today, tx>>
\* the Transaction is dropped without commit (early return or `?`): rollback
Rollback(p, r) ==
    /\ tx' = [tx EXCEPT ![p] = NoTx]
    /\ pc' = [pc EXCEPT ![p] = "idle"]
    /\ local' = [local EXCEPT ![p] = NoLocal]
    /\ result' = [result EXCEPT ![p] = r]
    /\ input' = [input EXCEPT ![p] = NoInput]
    /\ UNCHANGED <<db, today>>

\* the handler moves on to its next statement
Goto(p, label) == pc' = [pc EXCEPT ![p] = label]

\* rows of inventory_logs the running calls may still insert
LogDemand(in) ==
    CASE in.op = "create_purchase" -> Len(in.items)
      [] in.op = "create_production_batch" -> Len(in.ingredients)
      [] in.op = "complete_production_batch" -> 1
      [] OTHER -> 0
LogsReserved == Len(inventory_logs) + SumSeq([q \in 1..NumProcs |-> LogDemand(input[q])])
\* the model explores calls only while the log has room for what they insert
LogRoom == MaxLogs - LogsReserved

\* the empty store
Init ==
    /\ inventory = <<>>
    /\ inventory_logs = <<>>
    /\ production_batches = <<>>
    /\ production_batch_ingredients = <<>>
    /\ today = 1
    /\ pc = [p \in Procs |-> "idle"]
    /\ input = [p \in Procs |-> NoInput]
    /\ local = [p \in Procs |-> NoLocal]
    /\ tx = [p \in Procs |-> NoTx]
    /\ result = [p \in Procs |-> NoResult]

\* Utc::now() moves to the next calendar date
Tick ==
    /\ today < MaxDay
    /\ today' = today + 1
    /\ UNCHANGED <<db, pc, input, local, tx, result>>

StorageError_KeepsWrites(p) ==
    /\ ~Idle(p)
    /\ Commit(p, ErrResult("storage"))
\* a statement of a running transaction fails (connection lost, deadlock victim,
\* request cancelled): `.await?` returns Err and the dropped Transaction rolls back
StorageError(p) ==
    /\ ~Idle(p)
    /\ Rollback(p, ErrResult("storage"))

Generated_Stale(row) == row
\* inventory.available_stock is a generated column: the store sets it to
\* current_stock - reserved_stock in every row an INSERT or UPDATE writes
Generated(row) ==
    [row EXCEPT !.available_stock = row.current_stock - row.reserved_stock]

\* ---------------------------------------------------------- create_purchase
PurchaseLines == [inventory_id : AnyItemId, quantity : 1..MaxQty, unit_cost : 1..MaxCost]
\* the sequences over S of length at most n
SeqsUpTo(S, n) == UNION {[1..k -> S] : k \in 0..n}
PurchaseInputs == [op : {"create_purchase"}, items : SeqsUpTo(PurchaseLines, MaxLines)]
\* one line for an item id, at the highest quantity and cost
PlainPurchaseInputs ==
    [op : {"create_purchase"},
     items : {<<l>> : l \in [inventory_id : AnyItemId, quantity : {MaxQty}, unit_cost : {MaxCost}]}]

\* pool.begin() and the entry of the loop over input.items
StartPurchaseOf(p, in) ==
    /\ input' = [input EXCEPT ![p] = in]
    /\ Goto(p, IF in.items = <<>> THEN "purchase_commit" ELSE "purchase_line")
    /\ local' = [local EXCEPT ![p] = [NoLocal EXCEPT !.i = 1]]
    /\ result' = [result EXCEPT ![p] = NoResult]
    /\ UNCHANGED <<db, today, tx>>

StartPurchase(p) ==
    /\ Idle(p)
    /\ LET room == LogRoom
       IN \E in \in PurchaseInputs : LogDemand(in) <= room /\ StartPurchaseOf(p, in)
StartPlainPurchase(p) ==
    /\ Idle(p)
    /\ LET room == LogRoom
       IN \E in \in PlainPurchaseInputs : LogDemand(in) <= room /\ StartPurchaseOf(p, in)

\* lines of existing items whose quantity (a BigDecimal) may be zero or negative
SignedPurchaseInputs ==
    [op : {"create_purchase"},
     items : SeqsUpTo([inventory_id : ItemIds, quantity : {-1, 0, MaxQty},
                       unit_cost : {MaxCost}], MaxLines)]
StartSignedPurchase(p) ==
    /\ Idle(p)
    /\ LET room == LogRoom
       IN \E in \in SignedPurchaseInputs : LogDemand(in) <= room /\ StartPurchaseOf(p, in)

PurchasedRow_KeepCost(row, line) ==
    Generated([row EXCEPT !.current_stock = row.current_stock + line.quantity,
                          !.cost_per_unit = IF IsSome(@) THEN @ ELSE Some(line.unit_cost)])
\* the row the purchase UPDATE writes: stock raised, cost overwritten
PurchasedRow(row, line) ==
    Generated([row EXCEPT !.current_stock = row.current_stock + line.quantity,
                          !.cost_per_unit = Some(line.unit_cost)])

\* the movement the purchase INSERT writes
PurchaseLog(line) ==
    [inventory_id |-> line.inventory_id, movement_type |-> "purchase",
     quantity |-> line.quantity, unit_cost |-> Some(line.unit_cost),
     batch_number |-> None]

\* one pass of the loop: INSERT INTO inventory_logs, UPDATE inventory ... RETURNING;
\* fetch_one on an id with no row is RowNotFound and `?` returns Err
PurchaseLine(p) ==
    /\ pc[p] = "purchase_line"
    /\ LET line == input[p].items[local[p].i]
           id == line.inventory_id
       IN IF ~ItemExists(p, id)
          THEN Rollback(p, ErrResult("RowNotFound"))
          ELSE /\ ItemRowFree(p, id)
               /\ tx' = [tx EXCEPT ![p].logs = Append(@, PurchaseLog(line)),
                                   ![p].inventory = Put(@, id, PurchasedRow(ItemRow(p, id), line))]
               /\ local' = [local EXCEPT ![p].i = @ + 1]
               /\ Goto(p, IF local[p].i = Len(input[p].items)
                          THEN "purchase_commit" ELSE "purchase_line")
               /\ UNCHANGED <<db, today, input, result>>

PurchaseCommit(p) ==
    /\ pc[p] = "purchase_commit"
    /\ Commit(p, OkResult(TRUE, "purchase processed", None, None))

\* --------------------------------------------------- create_production_batch
IngredientInputs == [inventory_id : AnyItemId, quantity_used : 0..MaxQty]
BatchSizes == {0, MaxQty}
CreateBatchInputs ==
    [op : {"create_production_batch"}, product_inventory_id : AnyItemId,
     batch_size : BatchSizes, ingredients : SeqsUpTo(IngredientInputs, MaxLines)]

\* batch rows the store holds or a running create_production_batch may still insert
BatchesReserved ==
    Cardinality(DOMAIN production_batches)
      + Cardinality({q \in Procs : input[q].op = "create_production_batch"})

\* one ingredient of an active item, for a product that exists
PlainBatchInputs ==
    [op : {"create_production_batch"}, product_inventory_id : ItemIds,
     batch_size : {MaxQty},
     ingredients : {<<l>> : l \in [inventory_id : ItemIds, quantity_used : {1}]}]

\* pool.begin(), then the two checks of the input that read nothing
StartCreateBatchOf(p, in) ==
    /\ IF in.batch_size <= 0
       THEN /\ result' = [result EXCEPT ![p] = OkResult(FALSE, "batch size", None, None)]
            /\ UNCHANGED <<pc, input>>
       ELSE IF in.ingredients = <<>>
       THEN /\ result' = [result EXCEPT ![p] = OkResult(FALSE, "no ingredients", None, None)]
            /\ UNCHANGED <<pc, input>>
       ELSE /\ result' = [result EXCEPT ![p] = NoResult]
            /\ input' = [input EXCEPT ![p] = in]
            /\ Goto(p, "cpb_product")
    /\ UNCHANGED <<db, today, local, tx>>

\* the model explores a call while the tables have room for the rows it inserts
BatchRoom(p) == Idle(p) /\ BatchesReserved < MaxBatches

StartCreateBatch(p) ==
    /\ BatchRoom(p)
    /\ LET room == LogRoom
       IN \E in \in CreateBatchInputs : LogDemand(in) <= room /\ StartCreateBatchOf(p, in)
StartPlainBatch(p) ==
    /\ BatchRoom(p)
    /\ LET room == LogRoom
       IN \E in \in PlainBatchInputs : LogDemand(in) <= room /\ StartCreateBatchOf(p, in)

\* SELECT name FROM inventory WHERE id = $1 AND is_active = true
ActiveItem_AnyExisting(p, i) == ItemExists(p, i)
ActiveItem(p, i) == ItemExists(p, i) /\ ItemRow(p, i).is_active

\* 1. validate product exists
CpbProduct(p) ==
    /\ pc[p] = "cpb_product"
    /\ IF ~ActiveItem(p, input[p].product_inventory_id)
       THEN Rollback(p, OkResult(FALSE, "product not found", None, None))
       ELSE /\ Goto(p, "cpb_validate")
            /\ local' = [local EXCEPT ![p].i = 1]
            /\ UNCHANGED <<db, today, input, tx, result>>

\* inv_item.current_stock < ingredient.quantity_used
InsufficientStock_OffByOne(row, ingredient) ==
    row.current_stock + 1 < ingredient.quantity_used
InsufficientStock(row, ingredient) == row.current_stock < ingredient.quantity_used

CpbValidate_NoQuantityCheck(p) ==
    /\ pc[p] = "cpb_validate"
    /\ LET ingredient == input[p].ingredients[local[p].i]
           id == ingredient.inventory_id
       IN IF ~ActiveItem(p, id)
          THEN Rollback(p, OkResult(FALSE, "ingredient not found", None, None))
          ELSE IF InsufficientStock(ItemRow(p, id), ingredient)
          THEN Rollback(p, OkResult(FALSE, "insufficient stock", None, None))
          ELSE /\ local' = [local EXCEPT ![p].i =
                              IF @ = Len(input[p].ingredients) THEN 1 ELSE @ + 1]
               /\ Goto(p, IF local[p].i = Len(input[p].ingredients)
                          THEN "cpb_sequence" ELSE "cpb_validate")
               /\ UNCHANGED <<db, today, input, tx, result>>
\* 2. one pass of the validation loop over input.ingredients
CpbValidate(p) ==
    /\ pc[p] = "cpb_validate"
    /\ LET ingredient == input[p].ingredients[local[p].i]
           id == ingredient.inventory_id
       IN IF ingredient.quantity_used <= 0
          THEN Rollback(p, OkResult(FALSE, "ingredient quantity", None, None))
          ELSE IF ~ActiveItem(p, id)
          THEN Rollback(p, OkResult(FALSE, "ingredient not found", None, None))
          ELSE IF InsufficientStock(ItemRow(p, id), ingredient)
          THEN Rollback(p, OkResult(FALSE, "insufficient stock", None, None))
          ELSE /\ local' = [local EXCEPT ![p].i =
                              IF @ = Len(input[p].ingredients) THEN 1 ELSE @ + 1]
               /\ Goto(p, IF local[p].i = Len(input[p].ingredients)
                          THEN "cpb_sequence" ELSE "cpb_validate")
               /\ UNCHANGED <<db, today, input, tx, result>>

\* batch_number.split('-'): "BATCH", the date, and the pieces of what follows
\* the prefix "BATCH-<date>-"
SplitBatchNumber(bn) == <<"BATCH", bn.date>> \o SplitOnDash(bn.nnn)

\* ORDER BY batch_number: text order of two batch numbers
BatchNumberLess(a, b) ==
    IF a.date # b.date THEN a.date < b.date ELSE TextLess(a.nnn, b.nnn)

\* SELECT batch_number FROM production_batches WHERE batch_number LIKE 'BATCH-<date>-%'
\*   ORDER BY batch_number DESC LIMIT 1
LastBatch(p, date) ==
    LET rows == Overlay(production_batches, tx[p].batches)
        nums == {rows[b].batch_number : b \in {c \in DOMAIN rows : rows[c].batch_number.date = date}}
    IN IF nums = {} THEN None
       ELSE Some(CHOOSE n \in nums : \A m \in nums : m = n \/ BatchNumberLess(m, n))

NextSequence_LeavesGap(last_batch) ==
    IF IsSome(last_batch)
    THEN LET parts == SplitBatchNumber(last_batch[1])
         IN IF Len(parts) = BatchNumberParts THEN ParseI32OrZero(parts[3]) + 2 ELSE 1
    ELSE 1
\* the match on last_batch that yields the next sequence number
NextSequence(last_batch) ==
    IF IsSome(last_batch)
    THEN LET parts == SplitBatchNumber(last_batch[1])
         IN IF Len(parts) = BatchNumberParts THEN ParseI32OrZero(parts[3]) + 1 ELSE 1
    ELSE 1

\* 3. generate the batch number from the highest one of today
CpbSequence(p) ==
    /\ pc[p] = "cpb_sequence"
    /\ local' = [local EXCEPT ![p].batch_number =
                    Some(FormatBatchNumber(today, NextSequence(LastBatch(p, today))))]
    /\ Goto(p, "cpb_insert")
    /\ UNCHANGED <<db, today, input, tx, result>>

BatchNumberCommitted_NoConstraint(bn) == FALSE
\* production_batches.batch_number is unique: a committed row with the number
BatchNumberCommitted(bn) ==
    \E b \in DOMAIN production_batches : production_batches[b].batch_number = bn
\* ... and an uncommitted row of another transaction with it, which the INSERT awaits
BatchNumberPending(p, bn) ==
    \E q \in Procs \ {p} : \E b \in DOMAIN tx[q].batches : tx[q].batches[b].batch_number = bn

\* the id the store gives the inserted batch row (RETURNING id)
NewBatchId ==
    CHOOSE b \in BatchIds :
        /\ b \notin DOMAIN production_batches
        /\ \A q \in Procs : b \notin DOMAIN tx[q].batches
        /\ \A c \in BatchIds :
             (c \notin DOMAIN production_batches /\ \A q \in Procs : c \notin DOMAIN tx[q].batches)
               => b <= c

\* the row INSERT INTO production_batches writes
NewBatchRow(in, bn) ==
    [batch_number |-> bn, product_inventory_id |-> in.product_inventory_id,
     batch_size |-> in.batch_size, status |-> "in_progress", actual_yield |-> None,
     start_date |-> bn.date, yield_percentage |-> None, production_time_hours |-> None]

\* 4. create the production_batches record
CpbInsert(p) ==
    /\ pc[p] = "cpb_insert"
    /\ LET bn == local[p].batch_number[1]
       IN IF BatchNumberCommitted(bn)
          THEN Rollback(p, ErrResult("unique violation"))
          ELSE /\ ~BatchNumberPending(p, bn)
               /\ tx' = [tx EXCEPT ![p].batches = Put(@, NewBatchId, NewBatchRow(input[p], bn))]
               /\ local' = [local EXCEPT ![p].batch_id = Some(NewBatchId), ![p].i = 1]
               /\ Goto(p, "cpb_consume")
               /\ UNCHANGED <<db, today, input, result>>

ConsumedRow_KeepsStock(row, ingredient) == Generated(row)
ConsumedRow_Reserves(row, ingredient) ==
    Generated([row EXCEPT !.current_stock = row.current_stock - ingredient.quantity_used,
                          !.reserved_stock = row.reserved_stock + ingredient.quantity_used])
\* the row UPDATE inventory SET current_stock = current_stock - $1 writes
ConsumedRow(row, ingredient) ==
    Generated([row EXCEPT !.current_stock = row.current_stock - ingredient.quantity_used])

ProductionUseLog_Unsigned(ingredient, bn) ==
    [inventory_id |-> ingredient.inventory_id, movement_type |-> "production_use",
     quantity |-> ingredient.quantity_used, unit_cost |-> None,
     batch_number |-> Some(bn)]
ProductionUseLog_AsOutput(ingredient, bn) ==
    [inventory_id |-> ingredient.inventory_id, movement_type |-> "production_output",
     quantity |-> -ingredient.quantity_used, unit_cost |-> None,
     batch_number |-> Some(bn)]
\* the movement logged for a consumed ingredient
ProductionUseLog(ingredient, bn) ==
    [inventory_id |-> ingredient.inventory_id, movement_type |-> "production_use",
     quantity |-> -ingredient.quantity_used, unit_cost |-> None,
     batch_number |-> Some(bn)]

\* the row INSERT INTO production_batch_ingredients writes
IngredientRow(batch_id, ingredient) ==
    [batch_id |-> batch_id, ingredient_inventory_id |-> ingredient.inventory_id,
     quantity_used |-> ingredient.quantity_used]

\* 5. one pass of the loop that consumes stock and logs it
CpbConsume(p) ==
    /\ pc[p] = "cpb_consume"
    /\ LET ingredient == input[p].ingredients[local[p].i]
           id == ingredient.inventory_id
       IN IF ~ItemExists(p, id)
          THEN Rollback(p, ErrResult("RowNotFound"))
          ELSE /\ ItemRowFree(p, id)
               /\ tx' = [tx EXCEPT
                    ![p].ingredients = Append(@, IngredientRow(local[p].batch_id[1], ingredient)),
                    ![p].inventory = Put(@, id, ConsumedRow(ItemRow(p, id), ingredient)),
                    ![p].logs = Append(@, ProductionUseLog(ingredient, local[p].batch_number[1]))]
               /\ local' = [local EXCEPT ![p].i = @ + 1]
               /\ Goto(p, IF local[p].i = Len(input[p].ingredients)
                          THEN "cpb_commit" ELSE "cpb_consume")
               /\ UNCHANGED <<db, today, input, result>>

\* 6. commit
CpbCommit(p) ==
    /\ pc[p] = "cpb_commit"
    /\ Commit(p, OkResult(TRUE, "created", local[p].batch_id, local[p].batch_number))

\* ------------------------------------------------- complete_production_batch
Yields == {0, MaxQty}
CompleteInputs ==
    [op : {"complete_production_batch"}, batch_id : AnyBatchId, actual_yield : Yields]

\* pool.begin()
StartCompleteOf(p, in) ==
    /\ input' = [input EXCEPT ![p] = in]
    /\ Goto(p, "comp_read")
    /\ result' = [result EXCEPT ![p] = NoResult]
    /\ UNCHANGED <<db, today, local, tx>>

StartComplete(p) ==
    /\ Idle(p)
    /\ LogRoom >= 1
    /\ \E in \in CompleteInputs : StartCompleteOf(p, in)

\* completions of a batch with a negative actual_yield (a BigDecimal)
NegativeYieldInputs ==
    [op : {"complete_production_batch"}, batch_id : BatchIds, actual_yield : {-1, -MaxQty}]
StartNegativeComplete(p) ==
    /\ Idle(p)
    /\ LogRoom >= 1
    /\ \E in \in NegativeYieldInputs : StartCompleteOf(p, in)

\* format!("Batch is already {}", batch.status)
AlreadyMessage(status) ==
    IF status = "completed" THEN "already completed"
    ELSE IF status = "failed" THEN "already failed" ELSE "already in_progress"

\* 1. get batch details, and the two guards on what was read
CompRead(p) ==
    /\ pc[p] = "comp_read"
    /\ LET b == input[p].batch_id
       IN IF ~BatchExists(p, b)
          THEN Rollback(p, OkResult(FALSE, "batch not found", None, None))
          ELSE IF BatchRow(p, b).status # "in_progress"
          THEN Rollback(p, OkResult(FALSE, AlreadyMessage(BatchRow(p, b).status), None,
                                    Some(BatchRow(p, b).batch_number)))
          ELSE /\ local' = [local EXCEPT ![p].row = Some(BatchRow(p, b))]
               /\ Goto(p, "comp_batch")
               /\ UNCHANGED <<db, today, input, tx, result>>

\* a / b of two decimals, to DecimalScale places: the quotient in units of
\* 1 / DecimalScale
DecimalDiv(a, b) == (a * DecimalScale) \div b

YieldPct_Ratio(actual_yield, batch_size) ==
    IF batch_size > 0 THEN DecimalDiv(actual_yield, batch_size) ELSE 100 * DecimalScale
\* 2. yield_pct, in units of 1 / DecimalScale
YieldPct(actual_yield, batch_size) ==
    IF batch_size > 0 THEN DecimalDiv(actual_yield, batch_size) * 100
    ELSE 100 * DecimalScale

\* Utc::now() as a handler reads it: the wall clock, which may be behind the
\* date an earlier call read
ClockReadings == (today - ClockSkew)..today

\* (now - batch.start_date).num_hours().max(0), with the dates in days
DurationHours(now, start_date) ==
    IF (now - start_date) * HoursPerDay > 0 THEN (now - start_date) * HoursPerDay ELSE 0

\* the row UPDATE production_batches SET status = 'completed', ... writes; the
\* yield and the duration come from the batch the handler read
CompletedRow(row, in, batch, now) ==
    [row EXCEPT !.status = "completed", !.actual_yield = Some(in.actual_yield),
                !.yield_percentage = Some(YieldPct(in.actual_yield, batch.batch_size)),
                !.production_time_hours = Some(DurationHours(now, batch.start_date))]

\* 2. the yield and the duration, 3. update batch status (WHERE id = $6)
CompBatch(p) ==
    /\ pc[p] = "comp_batch"
    /\ LET b == input[p].batch_id
       IN /\ BatchRowFree(p, b)
          /\ \E now \in ClockReadings :
               tx' = [tx EXCEPT ![p].batches =
                        IF BatchExists(p, b)
                        THEN Put(@, b, CompletedRow(BatchRow(p, b), input[p], local[p].row[1], now))
                        ELSE @]
    /\ Goto(p, "comp_stock")
    /\ UNCHANGED <<db, today, input, local, result>>

\* the row UPDATE inventory SET current_stock = current_stock + $1 writes
ProducedRow(row, in) ==
    Generated([row EXCEPT !.current_stock = row.current_stock + in.actual_yield])

ProductionOutputLog_Expected(batch, in) ==
    [inventory_id |-> batch.product_inventory_id, movement_type |-> "production_output",
     quantity |-> batch.batch_size, unit_cost |-> None,
     batch_number |-> Some(batch.batch_number)]
\* the movement logged for the finished product
ProductionOutputLog(batch, in) ==
    [inventory_id |-> batch.product_inventory_id, movement_type |-> "production_output",
     quantity |-> in.actual_yield, unit_cost |-> None,
     batch_number |-> Some(batch.batch_number)]

\* 4. add finished product to inventory, 5. log production output
CompStock(p) ==
    /\ pc[p] = "comp_stock"
    /\ LET batch == local[p].row[1]
           id == batch.product_inventory_id
       IN /\ ItemRowFree(p, id)
          /\ tx' = [tx EXCEPT
               ![p].inventory =
                   IF ItemExists(p, id) THEN Put(@, id, ProducedRow(ItemRow(p, id), input[p]))
                   ELSE @,
               ![p].logs = Append(@, ProductionOutputLog(batch, input[p]))]
    /\ Goto(p, "comp_commit")
    /\ UNCHANGED <<db, today, input, local, result>>

CompCommit(p) ==
    /\ pc[p] = "comp_commit"
    /\ Commit(p, OkResult(TRUE, "completed", Some(input[p].batch_id),
                          Some(local[p].row[1].batch_number)))

\* ----------------------------------------------------- fail_production_batch
FailInputs == [op : {"fail_production_batch"}, batch_id : AnyBatchId]

StartFail(p) ==
    /\ Idle(p)
    /\ \E in \in FailInputs : input' = [input EXCEPT ![p] = in]
    /\ Goto(p, "fail_read")
    /\ result' = [result EXCEPT ![p] = NoResult]
    /\ UNCHANGED <<db, today, local, tx>>

FailRead_NoStatusGuard(p) ==
    /\ pc[p] = "fail_read"
    /\ LET b == input[p].batch_id
       IN IF ~BatchExists(p, b)
          THEN Rollback(p, OkResult(FALSE, "batch not found", None, None))
          ELSE /\ local' = [local EXCEPT ![p].row = Some(BatchRow(p, b))]
               /\ Goto(p, "fail_batch")
               /\ UNCHANGED <<db, today, input, tx, result>>
\* 1. get batch details, and the two guards on what was read
FailRead(p) ==
    /\ pc[p] = "fail_read"
    /\ LET b == input[p].batch_id
       IN IF ~BatchExists(p, b)
          THEN Rollback(p, OkResult(FALSE, "batch not found", None, None))
          ELSE IF BatchRow(p, b).status # "in_progress"
          THEN Rollback(p, OkResult(FALSE, AlreadyMessage(BatchRow(p, b).status), None,
                                    Some(BatchRow(p, b).batch_number)))
          ELSE /\ local' = [local EXCEPT ![p].row = Some(BatchRow(p, b))]
               /\ Goto(p, "fail_batch")
               /\ UNCHANGED <<db, today, input, tx, result>>

\* the row UPDATE production_batches SET status = 'failed', ... writes
FailedRow(row) == [row EXCEPT !.status = "failed"]

FailBatch_Restock(p) ==
    /\ pc[p] = "fail_batch"
    /\ LET b == input[p].batch_id
           id == local[p].row[1].product_inventory_id
       IN /\ BatchRowFree(p, b)
          /\ ItemRowFree(p, id)
          /\ tx' = [tx EXCEPT
               ![p].batches = Put(@, b, FailedRow(BatchRow(p, b))),
               ![p].inventory =
                   Put(@, id, Generated([ItemRow(p, id) EXCEPT !.current_stock = @ + 1]))]
    /\ Goto(p, "fail_commit")
    /\ UNCHANGED <<db, today, input, local, result>>
\* 2. update batch status (WHERE id = $3)
FailBatch(p) ==
    /\ pc[p] = "fail_batch"
    /\ LET b == input[p].batch_id
       IN /\ BatchRowFree(p, b)
          /\ tx' = [tx EXCEPT ![p].batches =
                      IF BatchExists(p, b) THEN Put(@, b, FailedRow(BatchRow(p, b))) ELSE @]
    /\ Goto(p, "fail_commit")
    /\ UNCHANGED <<db, today, input, local, result>>

FailCommit(p) ==
    /\ pc[p] = "fail_commit"
    /\ Commit(p, OkResult(TRUE, "failed", Some(input[p].batch_id),
                          Some(local[p].row[1].batch_number)))

\* ------------------------------------------------------ create_inventory_item
\* rows of table suppliers (no modelled mutation writes it)
Suppliers == {"mill"}
SupplierRefs == {None, Some("mill"), Some("nobody")}
OpeningStocks == {None, Some(MaxQty)}
OpeningReserved == {None, Some(1)}
CreateItemInputs ==
    [op : {"create_inventory_item"}, name : Names, current_stock : OpeningStocks,
     reserved_stock : OpeningReserved, cost_per_unit : {None, Some(MaxCost)},
     default_supplier_id : SupplierRefs]

\* item rows the store holds or a running create_inventory_item may still insert
ItemsReserved ==
    Cardinality(DOMAIN inventory)
      + Cardinality({q \in Procs : input[q].op = "create_inventory_item"})

\* a name, an opening stock and an opening reservation, the other optional fields
\* absent
PlainItemInputs ==
    [op : {"create_inventory_item"}, name : Names, current_stock : OpeningStocks,
     reserved_stock : OpeningReserved, cost_per_unit : {None}, default_supplier_id : {None}]

StartCreateItemOf(p, in) ==
    /\ input' = [input EXCEPT ![p] = in]
    /\ Goto(p, "cii_check")
    /\ result' = [result EXCEPT ![p] = NoResult]
    /\ UNCHANGED <<db, today, local, tx>>

\* the model explores a call while the table has room for the row it inserts
ItemRoom(p) == Idle(p) /\ ItemsReserved < MaxItems

StartCreateItem(p) == ItemRoom(p) /\ \E in \in CreateItemInputs : StartCreateItemOf(p, in)
StartPlainItem(p) == ItemRoom(p) /\ \E in \in PlainItemInputs : StartCreateItemOf(p, in)

\* SELECT id FROM inventory WHERE name = $1 AND is_active = true [AND id != $2]
NameTaken(p, name, except) ==
    \E i \in (DOMAIN inventory \cup DOMAIN tx[p].inventory) \ except :
        ItemRow(p, i).name = name /\ ItemRow(p, i).is_active

\* SELECT id FROM suppliers WHERE id = $1, for a supplier_id that was provided
SupplierMissing(ref) == IsSome(ref) /\ ref[1] \notin Suppliers

\* the name check and the supplier check
CiiCheck(p) ==
    /\ pc[p] = "cii_check"
    /\ IF NameTaken(p, input[p].name, {})
       THEN Rollback(p, OkResult(FALSE, "name exists", None, None))
       ELSE IF SupplierMissing(input[p].default_supplier_id)
       THEN Rollback(p, OkResult(FALSE, "supplier not found", None, None))
       ELSE /\ Goto(p, "cii_insert")
            /\ UNCHANGED <<db, today, input, local, tx, result>>

\* the id the store gives the inserted item row
NewItemId == CHOOSE i \in ItemIds \ DOMAIN inventory : \A j \in ItemIds \ DOMAIN inventory : i <= j

\* the row INSERT INTO inventory writes: absent stocks default to 0, is_active = true;
\* the statement gives no available_stock
NewItemRow(in) ==
    Generated([name |-> in.name, current_stock |-> UnwrapOr(in.current_stock, 0),
               reserved_stock |-> UnwrapOr(in.reserved_stock, 0), available_stock |-> 0,
               cost_per_unit |-> in.cost_per_unit, is_active |-> TRUE])

\* INSERT INTO inventory, on the pool (no transaction: committed at once)
CiiInsert(p) ==
    /\ pc[p] = "cii_insert"
    /\ inventory' = Put(inventory, NewItemId, NewItemRow(input[p]))
    /\ pc' = [pc EXCEPT ![p] = "idle"]
    /\ input' = [input EXCEPT ![p] = NoInput]
    /\ result' = [result EXCEPT ![p] = OkResult(TRUE, "created item", None, None)]
    /\ UNCHANGED <<inventory_logs, production_batches, production_batch_ingredients,
                   today, local, tx>>

\* ------------------------------------------------------ update_inventory_item
UpdateItemInputs ==
    [op : {"update_inventory_item"}, id : AnyItemId,
     name : {None} \cup {Some(n) : n \in Names},
     current_stock : OpeningStocks, reserved_stock : OpeningReserved,
     cost_per_unit : {None}, default_supplier_id : {None, Some("nobody")},
     is_active : {None, Some(TRUE), Some(FALSE)}]

\* an edit of current_stock alone
PlainUpdateInputs ==
    [op : {"update_inventory_item"}, id : AnyItemId, name : {None},
     current_stock : {Some(MaxQty)}, reserved_stock : {None},
     cost_per_unit : {None}, default_supplier_id : {None}, is_active : {None}]

StartUpdateItemOf(p, in) ==
    /\ input' = [input EXCEPT ![p] = in]
    /\ Goto(p, "uii_exists")
    /\ result' = [result EXCEPT ![p] = NoResult]
    /\ UNCHANGED <<db, today, local, tx>>

StartUpdateItem(p) == Idle(p) /\ \E in \in UpdateItemInputs : StartUpdateItemOf(p, in)
StartPlainUpdate(p) == Idle(p) /\ \E in \in PlainUpdateInputs : StartUpdateItemOf(p, in)

\* an edit that withdraws an item (is_active = false)
WithdrawInputs ==
    [op : {"update_inventory_item"}, id : ItemIds, name : {None},
     current_stock : {None}, reserved_stock : {None}, cost_per_unit : {None},
     default_supplier_id : {None}, is_active : {Some(FALSE)}]
StartWithdraw(p) == Idle(p) /\ \E in \in WithdrawInputs : StartUpdateItemOf(p, in)

\* check if item exists
UiiExists(p) ==
    /\ pc[p] = "uii_exists"
    /\ IF ~ItemExists(p, input[p].id)
       THEN Rollback(p, OkResult(FALSE, "item not found", None, None))
       ELSE /\ Goto(p, "uii_check")
            /\ UNCHANGED <<db, today, input, local, tx, result>>

\* the name-conflict check (if a name is given) and the supplier check
UiiCheck(p) ==
    /\ pc[p] = "uii_check"
    /\ IF IsSome(input[p].name) /\ NameTaken(p, input[p].name[1], {input[p].id})
       THEN Rollback(p, OkResult(FALSE, "name exists", None, None))
       ELSE IF SupplierMissing(input[p].default_supplier_id)
       THEN Rollback(p, OkResult(FALSE, "supplier not found", None, None))
       ELSE /\ Goto(p, "uii_update")
            /\ UNCHANGED <<db, today, input, local, tx, result>>

\* the row UPDATE inventory SET col = COALESCE($n, col), ... writes
UpdatedRow(row, in) ==
    Generated([name |-> Coalesce(in.name, row.name),
               current_stock |-> Coalesce(in.current_stock, row.current_stock),
               reserved_stock |-> Coalesce(in.reserved_stock, row.reserved_stock),
               available_stock |-> row.available_stock,
               cost_per_unit |->
                   IF IsSome(in.cost_per_unit) THEN in.cost_per_unit ELSE row.cost_per_unit,
               is_active |-> Coalesce(in.is_active, row.is_active)])

\* UPDATE inventory ... WHERE id = $1 RETURNING ...; fetch_one on no row is RowNotFound
UiiUpdate(p) ==
    /\ pc[p] = "uii_update"
    /\ LET id == input[p].id
       IN IF ~ItemExists(p, id)
          THEN Rollback(p, ErrResult("RowNotFound"))
          ELSE /\ ItemRowFree(p, id)
               /\ tx' = [tx EXCEPT ![p].inventory = Put(@, id, UpdatedRow(ItemRow(p, id), input[p]))]
               /\ Goto(p, "uii_commit")
               /\ UNCHANGED <<db, today, input, local, result>>

UiiCommit(p) ==
    /\ pc[p] = "uii_commit"
    /\ Commit(p, OkResult(TRUE, "updated item", None, None))

\* ------------------------------------------------------ delete_inventory_item
DeleteInputs == [op : {"delete_inventory_item"}, inventory_id : AnyItemId]

StartDelete(p) ==
    /\ Idle(p)
    /\ \E in \in DeleteInputs : input' = [input EXCEPT ![p] = in]
    /\ Goto(p, "del_exists")
    /\ result' = [result EXCEPT ![p] = NoResult]
    /\ UNCHANGED <<db, today, local, tx>>

\* check if item exists
DelExists(p) ==
    /\ pc[p] = "del_exists"
    /\ IF ~ItemExists(p, input[p].inventory_id)
       THEN Rollback(p, OkResult(FALSE, "item not found", None, None))
       ELSE /\ Goto(p, "del_check")
            /\ UNCHANGED <<db, today, input, local, tx, result>>

\* SELECT COUNT(*) FROM production_batch_ingredients JOIN production_batches ...
\*   WHERE ingredient_inventory_id = $1 AND status = 'in_progress'
ActiveBatchCount(p, i) ==
    LET rows == production_batch_ingredients \o tx[p].ingredients
    IN Cardinality({k \in 1..Len(rows) :
                      /\ rows[k].ingredient_inventory_id = i
                      /\ BatchExists(p, rows[k].batch_id)
                      /\ BatchRow(p, rows[k].batch_id).status = "in_progress"})

\* check for active production batches using this item
DelCheck(p) ==
    /\ pc[p] = "del_check"
    /\ IF ActiveBatchCount(p, input[p].inventory_id) > 0
       THEN Rollback(p, OkResult(FALSE, "used in active batches", None, None))
       ELSE /\ Goto(p, "del_delete")
            /\ UNCHANGED <<db, today, input, local, tx, result>>

\* what the store does with the rows that reference a deleted item.  The handler
\* leaves them to the schema ("cascading will handle related records"), which
\* either removes them with the item or rejects the DELETE while they exist.
ReferentialActions == {"cascade", "restrict"}

\* DELETE FROM inventory WHERE id = $1 and tx.commit(); the transaction holds no
\* other write, so the removal and its publication are one step.  The statement
\* is run with execute: deleting no row is not an error.
DelDelete(p) ==
    /\ pc[p] = "del_delete"
    /\ LET id == input[p].inventory_id
           referenced ==
               \/ \E k \in 1..Len(inventory_logs) : inventory_logs[k].inventory_id = id
               \/ \E k \in 1..Len(production_batch_ingredients) :
                    production_batch_ingredients[k].ingredient_inventory_id = id
               \/ \E b \in DOMAIN production_batches :
                    production_batches[b].product_inventory_id = id
           kept == {b \in DOMAIN production_batches :
                      production_batches[b].product_inventory_id # id}
       IN /\ ItemRowFree(p, id)
          /\ \E action \in ReferentialActions :
               IF action = "restrict" /\ referenced
               THEN Rollback(p, ErrResult("foreign key violation"))
               ELSE /\ inventory' = [j \in DOMAIN inventory \ {id} |-> inventory[j]]
                    /\ inventory_logs' =
                         SelectSeq(inventory_logs, LAMBDA l : l.inventory_id # id)
                    /\ production_batches' = [b \in kept |-> production_batches[b]]
                    /\ production_batch_ingredients' =
                         SelectSeq(production_batch_ingredients,
                                   LAMBDA r : r.ingredient_inventory_id # id /\ r.batch_id \in kept)
                    /\ pc' = [pc EXCEPT ![p] = "idle"]
                    /\ input' = [input EXCEPT ![p] = NoInput]
                    /\ result' = [result EXCEPT ![p] = OkResult(TRUE, "deleted item", None, None)]
                    /\ UNCHANGED <<today, local, tx>>

\* ------------------------------------------------------------ specifications
\* a store holding the items 1..MaxItems, each as create_inventory_item leaves it
\* when called with an opening current_stock
StockedRow(i) ==
    NewItemRow([name |-> IF i = 1 THEN "flour" ELSE IF i = 2 THEN "bread" ELSE "item",
                current_stock |-> Some(MaxQty + 1), reserved_stock |-> None,
                cost_per_unit |-> None])

InitStocked ==
    /\ inventory = [i \in ItemIds |-> StockedRow(i)]
    /\ inventory_logs = <<>>
    /\ production_batches = <<>>
    /\ production_batch_ingredients = <<>>
    /\ today = 1
    /\ pc = [p \in Procs |-> "idle"]
    /\ input = [p \in Procs |-> NoInput]
    /\ local = [p \in Procs |-> NoLocal]
    /\ tx = [p \in Procs |-> NoTx]
    /\ result = [p \in Procs |-> NoResult]

CreateBatchRun(p) ==
    \/ CpbProduct(p) \/ CpbValidate(p) \/ CpbSequence(p)
    \/ CpbInsert(p) \/ CpbConsume(p) \/ CpbCommit(p)
CompleteRun(p) ==
    \/ StartComplete(p) \/ CompRead(p) \/ CompBatch(p) \/ CompStock(p) \/ CompCommit(p)
FailRun(p) ==
    \/ StartFail(p) \/ FailRead(p) \/ FailBatch(p) \/ FailCommit(p)
PurchaseRun(p) == PurchaseLine(p) \/ PurchaseCommit(p)
CreateItemRun(p) == CiiCheck(p) \/ CiiInsert(p)
UpdateItemRun(p) == UiiExists(p) \/ UiiCheck(p) \/ UiiUpdate(p) \/ UiiCommit(p)

\* every mutation of the ledger and of the items, one call at a time, from the
\* empty store
Next ==
    \/ StartPlainBatch(1) \/ CreateBatchRun(1) \/ CompleteRun(1) \/ FailRun(1)
    \/ StartPlainPurchase(1) \/ PurchaseRun(1) \/ StartPlainItem(1) \/ CreateItemRun(1)
    \/ StartPlainUpdate(1) \/ UpdateItemRun(1) \/ StorageError(1)
Spec == Init /\ [][Next]_vars

\* concurrent create_production_batch calls
NextCreate == \E p \in Procs : StartCreateBatch(p) \/ CreateBatchRun(p) \/ StorageError(p)
SpecCreate == InitStocked /\ [][NextCreate]_vars

\* concurrent creations of plain batches while the calendar date advances
NextDated ==
    \/ Tick
    \/ \E p \in Procs : StartPlainBatch(p) \/ CreateBatchRun(p) \/ StorageError(p)
SpecDated == InitStocked /\ [][NextDated]_vars

\* the batch lifecycle under concurrent handlers
NextLifecycle ==
    \E p \in Procs :
        \/ StartPlainBatch(p) \/ CreateBatchRun(p) \/ CompleteRun(p) \/ FailRun(p)
        \/ StorageError(p)
SpecLifecycle == InitStocked /\ [][NextLifecycle]_vars

\* concurrent purchases
NextPurchase == \E p \in Procs : StartPurchase(p) \/ PurchaseRun(p) \/ StorageError(p)
SpecPurchase == InitStocked /\ [][NextPurchase]_vars

\* create_production_batch calls one after another, on items that may have been
\* withdrawn
NextSequential ==
    \/ StartCreateBatch(1) \/ CreateBatchRun(1)
    \/ StartWithdraw(1) \/ UpdateItemRun(1) \/ StorageError(1)
SpecSequential == InitStocked /\ [][NextSequential]_vars

\* create_purchase calls one after another, with quantities of either sign, on
\* items that may have been withdrawn
NextIntake ==
    \/ StartSignedPurchase(1) \/ PurchaseRun(1)
    \/ StartWithdraw(1) \/ UpdateItemRun(1) \/ StorageError(1)
SpecIntake == InitStocked /\ [][NextIntake]_vars

\* batches created and completed one call at a time, with yields of either sign
NextYield ==
    \/ StartPlainBatch(1) \/ CreateBatchRun(1)
    \/ StartNegativeComplete(1) \/ CompleteRun(1) \/ StorageError(1)
SpecYield == InitStocked /\ [][NextYield]_vars

\* items deleted between the calls of the batch lifecycle and purchases, one call
\* at a time
NextDelete ==
    \/ StartPlainBatch(1) \/ CreateBatchRun(1) \/ CompleteRun(1) \/ FailRun(1)
    \/ StartPlainPurchase(1) \/ PurchaseRun(1)
    \/ StartDelete(1) \/ DelExists(1) \/ DelCheck(1) \/ DelDelete(1) \/ StorageError(1)
SpecDelete == InitStocked /\ [][NextDelete]_vars

\* the row a plain creation on day 1 inserted
DayRow(nnn) ==
    NewBatchRow([product_inventory_id |-> 1, batch_size |-> MaxQty],
                [date |-> 1, nnn |-> nnn])

\* the batches of day 1 after n creations in a row: the sequencer numbered them
\* 001, 002, ... up to n; the rows have ids of their own
DayStore(n) ==
    [b \in {GhostBatchId + k : k \in 1..n} |->
        DayRow(FormatBatchNumber(1, b - GhostBatchId).nnn)]

\* the sizes of a day around every width of the sequence number, up to the
\* first number wider than the padding
DaySizes == {0, 1} \cup {10 ^ w - 1 : w \in 1..PadWidth} \cup {10 ^ w : w \in 1..PadWidth}

InitDay(batches) ==
    /\ today = 1
    /\ inventory = [i \in ItemIds |-> StockedRow(i)]
    /\ inventory_logs = <<>>
    /\ production_batches \in batches
    /\ production_batch_ingredients = <<>>
    /\ pc = [p \in Procs |-> "idle"]
    /\ input = [p \in Procs |-> NoInput]
    /\ local = [p \in Procs |-> NoLocal]
    /\ tx = [p \in Procs |-> NoTx]
    /\ result = [p \in Procs |-> NoResult]

\* the model explores a call while the store has room for MaxBatches batches
\* more than it was given
StartBatchOfDay(p) ==
    /\ Idle(p)
    /\ Cardinality(DOMAIN production_batches \cap BatchIds) < MaxBatches
    /\ LET room == LogRoom
       IN \E in \in PlainBatchInputs : LogDemand(in) <= room /\ StartCreateBatchOf(p, in)

\* one creation on a day that already has its batches
NextSequencer == StartBatchOfDay(1) \/ CreateBatchRun(1) \/ StorageError(1)
SpecSequencer == InitDay({DayStore(n) : n \in DaySizes}) /\ [][NextSequencer]_vars

\* sequence parts no creation writes: the empty string, a letter, a part with a
\* dash of its own, a number above i32::MAX
CorruptParts ==
    {<<>>, <<0, 0, 2, Letter>>, <<0, 0, 2, Dash, 1>>, [k \in 1..(Len(Digits(I32Max))) |-> 9]}

\* a day whose batches include a row another writer of the database left with a
\* sequence part out of CorruptParts
CorruptStore(n, part) ==
    [b \in {GhostBatchId + k : k \in 1..(n + 1)} |->
        IF b = GhostBatchId + n + 1 THEN DayRow(part)
        ELSE DayRow(FormatBatchNumber(1, b - GhostBatchId).nnn)]

\* one creation on a day with a corrupt batch number
SpecCorrupt ==
    /\ InitDay({CorruptStore(n, part) : n \in {0, 1}, part \in CorruptParts})
    /\ [][NextSequencer]_vars

\* batches of either size, so that a yield is not always a terminating fraction
\* of the batch size
SizedBatchInputs ==
    [op : {"create_production_batch"}, product_inventory_id : {1},
     batch_size : {MaxQty, MaxQty + 1},
     ingredients : {<<[inventory_id |-> 1, quantity_used |-> 1]>>}]
StartSizedBatch(p) ==
    /\ BatchRoom(p)
    /\ LET room == LogRoom
       IN \E in \in SizedBatchInputs : LogDemand(in) <= room /\ StartCreateBatchOf(p, in)

\* a batch row with batch_size 0, which no creation writes (it refuses the size)
\* and the yield computation guards against: a row another writer left
ZeroSizeStore ==
    1 :> [NewBatchRow([product_inventory_id |-> 1, batch_size |-> 0],
                      FormatBatchNumber(1, 1)) EXCEPT !.batch_size = 0]

\* batches created and completed one call at a time while the date advances
NextTimed ==
    \/ Tick
    \/ StartSizedBatch(1) \/ CreateBatchRun(1) \/ CompleteRun(1) \/ StorageError(1)
SpecTimed == InitDay({<<>>, ZeroSizeStore}) /\ [][NextTimed]_vars

\* items created and edited one call at a time, from the empty store
NextNaming ==
    \/ StartPlainItem(1) \/ CreateItemRun(1)
    \/ StartUpdateItem(1) \/ UpdateItemRun(1) \/ StorageError(1)
SpecNaming == Init /\ [][NextNaming]_vars

\* a statement of a call that has begun: the runtime polls the handler's future
\* until it returns, and the store answers every statement
Running(p) ==
    /\ ~Idle(p)
    /\ CreateBatchRun(p) \/ CompleteRun(p) \/ FailRun(p) \/ PurchaseRun(p)

\* the four ledger operations, one call at a time, each run to its end
NextLedger ==
    \/ StartCreateBatch(1) \/ CreateBatchRun(1) \/ CompleteRun(1) \/ FailRun(1)
    \/ StartPlainPurchase(1) \/ PurchaseRun(1) \/ StorageError(1)
SpecLedger == InitStocked /\ [][NextLedger]_vars /\ WF_vars(Running(1))

\* the four ledger operations under concurrent handlers
NextBooks ==
    \E p \in Procs :
        \/ StartPlainBatch(p) \/ CreateBatchRun(p) \/ CompleteRun(p) \/ FailRun(p)
        \/ StartPlainPurchase(p) \/ PurchaseRun(p) \/ StorageError(p)
SpecBooks == InitStocked /\ [][NextBooks]_vars

\* ------------------------------------------------------------------- claims
\* the handler p takes a step (every step of a handler moves its pc or returns)
Steps(p) == pc'[p] # pc[p] \/ result'[p] # result[p]
FailPcs == {"fail_read", "fail_batch", "fail_commit"}
PurchasePcs == {"purchase_line", "purchase_commit"}

\* C1: for every item, current_stock equals the sum of the item's movement
\* quantities, after any sequence of committed mutations.
C1_LedgerConsistent ==
    \A i \in DOMAIN inventory :
        inventory[i].current_stock = MovementSum(inventory_logs, i)

DistinctIngredients(in) ==
    \A j, k \in 1..Len(in.ingredients) :
        j # k => in.ingredients[j].inventory_id # in.ingredients[k].inventory_id

\* C2: a create_production_batch call succeeds only if, when it commits, the
\* stock of each ingredient still covers the quantity it consumes (so of two
\* concurrent calls that the stock covers only one of, one fails), and the
\* stock it leaves is never negative.  Stated for calls that name each
\* ingredient once.
C2_NoOversell ==
    [][\A p \in Procs :
         (pc[p] = "cpb_commit" /\ pc'[p] = "idle" /\ result'[p].success
            /\ DistinctIngredients(input[p]))
         => \A k \in 1..Len(input[p].ingredients) :
               LET line == input[p].ingredients[k]
               IN /\ inventory[line.inventory_id].current_stock >= line.quantity_used
                  /\ inventory'[line.inventory_id].current_stock >= 0]_vars

\* C3: no two committed batches share a batch_number, in any interleaving of
\* concurrent create_production_batch calls, on one date or across dates.
C3_UniqueBatchNumbers ==
    \A a, b \in DOMAIN production_batches :
        a # b => production_batches[a].batch_number # production_batches[b].batch_number

\* C3 witness: two calls computed the same number; one committed it and the
\* other was refused by the store.
C3_Witness ==
    \E p \in Procs :
        /\ result[p] = ErrResult("unique violation")
        /\ production_batches # <<>>

\* C4: a batch observed completed or failed keeps that status in every later
\* state.
C4_TerminalStatusFinal ==
    [][\A b \in DOMAIN production_batches :
         production_batches[b].status \in {"completed", "failed"}
         => /\ b \in DOMAIN production_batches'
            /\ production_batches'[b].status = production_batches[b].status]_vars

\* C5: when the validation of create_production_batch finds an ingredient whose
\* quantity_used exceeds the item's current_stock, the call returns
\* success = false with no batch id (unless that very statement fails in the
\* store), and no table and no pending write changes.
C5_InsufficientStockRefused ==
    [][\A p \in Procs :
         (/\ pc[p] = "cpb_validate"
          /\ Steps(p)
          /\ LET line == input[p].ingredients[local[p].i]
             IN /\ ItemExists(p, line.inventory_id)
                /\ line.quantity_used > ItemRow(p, line.inventory_id).current_stock)
         => /\ pc'[p] = "idle"
            /\ \/ result'[p] = ErrResult("storage")
               \/ /\ result'[p].ret = "Ok"
                  /\ ~result'[p].success
                  /\ result'[p].batch_id = None
                  /\ result'[p].batch_number = None
            /\ tx'[p] = NoTx
            /\ UNCHANGED db]_vars

\* C5 witness: a call was refused for insufficient stock after an earlier call
\* had consumed stock.
C5_Witness ==
    \E p \in Procs :
        /\ result[p] = OkResult(FALSE, "insufficient stock", None, None)
        /\ inventory_logs # <<>>

\* sum of field f over the lines of a list that name item i
LineSum(lines, i, Qty(_)) ==
    SumSeq([k \in 1..Len(lines) |-> IF lines[k].inventory_id = i THEN Qty(lines[k]) ELSE 0])
\* index of the last line of a list that names item i
LastLineFor(lines, i) ==
    CHOOSE k \in 1..Len(lines) :
        /\ lines[k].inventory_id = i
        /\ \A j \in (k + 1)..Len(lines) : lines[j].inventory_id # i

\* C6: a committed create_purchase raises each named item's current_stock by the
\* quantities of its lines, leaves its cost_per_unit at the unit_cost of the last
\* line for it, appends one purchase movement of +quantity per line, and leaves
\* every other item and every earlier movement as it was.
C6_PurchaseEffect ==
    [][\A p \in Procs :
         (pc[p] = "purchase_commit" /\ pc'[p] = "idle" /\ result'[p].success)
         => LET lines == input[p].items
                n == Len(inventory_logs)
            IN /\ DOMAIN inventory' = DOMAIN inventory
               /\ \A i \in DOMAIN inventory :
                    IF \E k \in 1..Len(lines) : lines[k].inventory_id = i
                    THEN /\ inventory'[i].current_stock =
                              inventory[i].current_stock + LineSum(lines, i, LAMBDA l : l.quantity)
                         /\ inventory'[i].cost_per_unit =
                              Some(lines[LastLineFor(lines, i)].unit_cost)
                         /\ inventory'[i].reserved_stock = inventory[i].reserved_stock
                         /\ inventory'[i].name = inventory[i].name
                         /\ inventory'[i].is_active = inventory[i].is_active
                    ELSE inventory'[i] = inventory[i]
               /\ Len(inventory_logs') = n + Len(lines)
               /\ SubSeq(inventory_logs', 1, n) = inventory_logs
               /\ \A k \in 1..Len(lines) :
                    /\ inventory_logs'[n + k].inventory_id = lines[k].inventory_id
                    /\ inventory_logs'[n + k].movement_type = "purchase"
                    /\ inventory_logs'[n + k].quantity = lines[k].quantity]_vars

\* C6 witness: a committed purchase with two lines for one item at different
\* costs; the item carries the cost of the second.
C6_Witness ==
    /\ \E p \in Procs : result[p] = OkResult(TRUE, "purchase processed", None, None)
    /\ \E k \in 1..(Len(inventory_logs) - 1) :
         LET a == inventory_logs[k]
             b == inventory_logs[k + 1]
         IN /\ a.movement_type = "purchase" /\ b.movement_type = "purchase"
            /\ a.inventory_id = b.inventory_id
            /\ a.unit_cost # b.unit_cost
            /\ inventory[b.inventory_id].cost_per_unit = b.unit_cost
            /\ Len(inventory_logs) = k + 1

\* C7: a successful create_production_batch inserts one batch row with status
\* in_progress, one ingredient row per input ingredient, lowers each ingredient
\* item's current_stock by the quantities used of it, and appends one
\* production_use movement of -quantity_used per ingredient carrying the new
\* batch_number.
C7_CreateBatchEffect ==
    [][\A p \in Procs :
         (pc[p] = "cpb_commit" /\ pc'[p] = "idle" /\ result'[p].success)
         => LET lines == input[p].ingredients
                n == Len(inventory_logs)
                m == Len(production_batch_ingredients)
                new == DOMAIN production_batches' \ DOMAIN production_batches
            IN /\ Cardinality(new) = 1
               /\ \A b \in DOMAIN production_batches :
                    production_batches'[b] = production_batches[b]
               /\ \A b \in new :
                    /\ production_batches'[b].status = "in_progress"
                    /\ result'[p].batch_id = Some(b)
                    /\ result'[p].batch_number = Some(production_batches'[b].batch_number)
                    /\ Len(production_batch_ingredients') = m + Len(lines)
                    /\ SubSeq(production_batch_ingredients', 1, m) = production_batch_ingredients
                    /\ \A k \in 1..Len(lines) :
                         /\ production_batch_ingredients'[m + k].batch_id = b
                         /\ production_batch_ingredients'[m + k].ingredient_inventory_id
                              = lines[k].inventory_id
                         /\ production_batch_ingredients'[m + k].quantity_used
                              = lines[k].quantity_used
                    /\ Len(inventory_logs') = n + Len(lines)
                    /\ SubSeq(inventory_logs', 1, n) = inventory_logs
                    /\ \A k \in 1..Len(lines) :
                         /\ inventory_logs'[n + k].inventory_id = lines[k].inventory_id
                         /\ inventory_logs'[n + k].movement_type = "production_use"
                         /\ inventory_logs'[n + k].quantity = -lines[k].quantity_used
                         /\ inventory_logs'[n + k].batch_number
                              = Some(production_batches'[b].batch_number)
               /\ DOMAIN inventory' = DOMAIN inventory
               /\ \A i \in DOMAIN inventory :
                    inventory'[i].current_stock =
                      inventory[i].current_stock - LineSum(lines, i, LAMBDA l : l.quantity_used)]_vars

\* C7 witness: a batch with two ingredient rows was created.
C7_Witness ==
    \E p \in Procs :
        /\ result[p].success /\ result[p].message = "created"
        /\ \E j, k \in 1..Len(production_batch_ingredients) :
             /\ j # k
             /\ production_batch_ingredients[j].batch_id = result[p].batch_id[1]
             /\ production_batch_ingredients[k].batch_id = result[p].batch_id[1]

\* C8: a successful complete_production_batch leaves the batch completed, raises
\* the product item's current_stock by actual_yield, appends one
\* production_output movement of +actual_yield for the product with the batch's
\* batch_number, and changes no other item.
C8_CompleteEffect ==
    [][\A p \in Procs :
         (pc[p] = "comp_commit" /\ pc'[p] = "idle" /\ result'[p].success)
         => LET b == input[p].batch_id
                y == input[p].actual_yield
                product == production_batches[b].product_inventory_id
            IN /\ production_batches'[b].status = "completed"
               /\ production_batches'[b].actual_yield = Some(y)
               /\ DOMAIN inventory' = DOMAIN inventory
               /\ inventory'[product].current_stock = inventory[product].current_stock + y
               /\ \A i \in DOMAIN inventory \ {product} : inventory'[i] = inventory[i]
               /\ Len(inventory_logs') = Len(inventory_logs) + 1
               /\ SubSeq(inventory_logs', 1, Len(inventory_logs)) = inventory_logs
               /\ LET out == inventory_logs'[Len(inventory_logs')]
                  IN /\ out.inventory_id = product
                     /\ out.movement_type = "production_output"
                     /\ out.quantity = y
                     /\ out.batch_number = Some(production_batches[b].batch_number)]_vars

\* C8 witness: a batch was completed with a yield below its batch_size.
C8_Witness ==
    \E p \in Procs :
        /\ result[p].success /\ result[p].message = "completed"
        /\ LET row == production_batches[result[p].batch_id[1]]
           IN /\ row.status = "completed"
              /\ row.actual_yield # Some(row.batch_size)

\* C9: no step of fail_production_batch changes any item row (current_stock,
\* reserved_stock) or the movement log, nor holds a pending write of either,
\* whether the call succeeds or not.
C9_FailTouchesNoStock ==
    [][\A p \in Procs :
         (pc[p] \in FailPcs /\ Steps(p))
         => /\ inventory' = inventory
            /\ inventory_logs' = inventory_logs
            /\ tx'[p].inventory = <<>>
            /\ tx'[p].logs = <<>>]_vars

\* C9 witness: a batch was failed and the stock its creation consumed is still
\* consumed.
C9_Witness ==
    \E p \in Procs :
        /\ result[p].success /\ result[p].message = "failed"
        /\ production_batches[result[p].batch_id[1]].status = "failed"
        /\ \E k \in 1..Len(inventory_logs) :
             /\ inventory_logs[k].movement_type = "production_use"
             /\ inventory_logs[k].batch_number = result[p].batch_number
             /\ inventory[inventory_logs[k].inventory_id].current_stock
                  = StockedRow(1).current_stock
                      + MovementSum(inventory_logs, inventory_logs[k].inventory_id)
             /\ MovementSum(inventory_logs, inventory_logs[k].inventory_id) < 0

\* C10: the lines of one create_purchase commit together or not at all: no step
\* of the call but its commit changes a table, the commit publishes every line,
\* and a call that ends without committing leaves no pending write.
C10_PurchaseAtomic ==
    [][\A p \in Procs :
         (pc[p] \in PurchasePcs /\ Steps(p))
         => IF pc[p] = "purchase_commit" /\ result'[p].success
            THEN Len(inventory_logs') = Len(inventory_logs) + Len(input[p].items)
            ELSE /\ UNCHANGED db
                 /\ pc'[p] = "idle" => (tx'[p] = NoTx /\ ~result'[p].success)]_vars

\* C10 witness: the first line of a purchase is written and pending, and the
\* second names an item that does not exist.
C10_Witness ==
    \E p \in Procs :
        /\ pc[p] = "purchase_line"
        /\ local[p].i = 2
        /\ Len(tx[p].logs) = 1
        /\ tx[p].inventory # <<>>
        /\ ~ItemExists(p, input[p].items[2].inventory_id)

CreatePcs == {"cpb_product", "cpb_validate", "cpb_sequence", "cpb_insert",
              "cpb_consume", "cpb_commit"}
\* a structured refusal: Ok, success = false, a reason, no batch id, no batch number
Refused(r) ==
    /\ r.ret = "Ok" /\ ~r.success /\ r.message # ""
    /\ r.batch_id = None /\ r.batch_number = None
Withdrawn(p, i) == ~ItemExists(p, i) \/ ~ItemRow(p, i).is_active
\* the precondition the statement handler p is about to run checks does not hold
PreconditionFails(p) ==
    \/ pc[p] = "cpb_product" /\ Withdrawn(p, input[p].product_inventory_id)
    \/ /\ pc[p] = "cpb_validate"
       /\ LET line == input[p].ingredients[local[p].i]
          IN \/ line.quantity_used <= 0
             \/ Withdrawn(p, line.inventory_id)
             \/ ItemRow(p, line.inventory_id).current_stock < line.quantity_used

\* C11: every precondition failure of create_production_batch (batch_size <= 0,
\* no ingredients, an ingredient quantity <= 0, product or ingredient missing or
\* inactive, ingredient stock below quantity_used) is found before the call has
\* written anything and ends the call with success = false, a message, no batch
\* id and no batch number, every table left as it was.
C11_PreconditionsRefuse ==
    [][\A p \in Procs :
         /\ (PreconditionFails(p) /\ Steps(p))
              => /\ tx[p] = NoTx
                 /\ pc'[p] = "idle"
                 /\ tx'[p] = NoTx
                 /\ UNCHANGED db
                 /\ Refused(result'[p]) \/ result'[p] = ErrResult("storage")
         /\ (pc[p] = "idle" /\ pc'[p] = "idle" /\ result'[p] # result[p])
              => Refused(result'[p]) /\ UNCHANGED db
         /\ pc'[p] \in CreatePcs
              => input'[p].batch_size > 0 /\ input'[p].ingredients # <<>>]_vars

\* C11 witness: after a batch was created, a call naming a withdrawn item as an
\* ingredient was refused.
C11_Witness ==
    /\ result[1] = OkResult(FALSE, "ingredient not found", None, None)
    /\ \E i \in DOMAIN inventory : ~inventory[i].is_active
    /\ production_batches # <<>>

\* C12: complete_production_batch or fail_production_batch, called on a batch
\* that does not exist or whose status is not in_progress, returns success =
\* false (batch not found, or already <status>) and changes nothing: no batch,
\* no item, no movement, and no write is left pending.
C12_TerminalGuard ==
    [][\A p \in Procs :
         (/\ pc[p] \in {"comp_read", "fail_read"}
          /\ Steps(p)
          /\ \/ ~BatchExists(p, input[p].batch_id)
             \/ BatchRow(p, input[p].batch_id).status # "in_progress")
         => /\ pc'[p] = "idle"
            /\ tx'[p] = NoTx
            /\ UNCHANGED db
            /\ \/ result'[p] = ErrResult("storage")
               \/ /\ result'[p].ret = "Ok"
                  /\ ~result'[p].success
                  /\ result'[p].batch_id = None
                  /\ result'[p].message =
                       IF ~BatchExists(p, input[p].batch_id) THEN "batch not found"
                       ELSE AlreadyMessage(BatchRow(p, input[p].batch_id).status)]_vars

\* C12 witness: a call on a batch that an earlier call had completed was
\* answered "already completed".
C12_Witness ==
    /\ ~result[1].success
    /\ result[1].message = "already completed"
    /\ \E b \in DOMAIN production_batches :
         /\ production_batches[b].status = "completed"
         /\ result[1].batch_number = Some(production_batches[b].batch_number)

\* C13: in every state, for every item (committed or written and not yet
\* committed), available_stock = current_stock - reserved_stock.
C13_AvailableStock ==
    /\ \A i \in DOMAIN inventory :
         inventory[i].available_stock
           = inventory[i].current_stock - inventory[i].reserved_stock
    /\ \A p \in Procs : \A i \in DOMAIN tx[p].inventory :
         tx[p].inventory[i].available_stock
           = tx[p].inventory[i].current_stock - tx[p].inventory[i].reserved_stock

\* C13 witness: an item with a reservation whose stock a purchase has raised.
C13_Witness ==
    \E i \in DOMAIN inventory :
        /\ inventory[i].reserved_stock > 0
        /\ \E k \in 1..Len(inventory_logs) :
             /\ inventory_logs[k].inventory_id = i
             /\ inventory_logs[k].movement_type = "purchase"
        /\ inventory[i].available_stock < inventory[i].current_stock

\* C14: without any concurrency, a create_production_batch call succeeds only
\* if each item's current_stock covers the total quantity_used of the
\* ingredient lines that name it, so it leaves no current_stock below zero.
C14_ConsumptionCovered ==
    [][\A p \in Procs :
         (pc[p] = "cpb_commit" /\ pc'[p] = "idle" /\ result'[p].success)
         => \A i \in DOMAIN inventory :
               /\ inventory[i].current_stock
                    >= LineSum(input[p].ingredients, i, LAMBDA l : l.quantity_used)
               /\ inventory'[i].current_stock >= 0]_vars

\* C15: a create_purchase line whose item id resolves to no item ends the call
\* with a structured outcome, Ok with success = false and a message, not with a
\* hard error.
C15_UnknownItemRefused ==
    [][\A p \in Procs :
         (/\ pc[p] = "purchase_line"
          /\ Steps(p)
          /\ ~ItemExists(p, input[p].items[local[p].i].inventory_id)
          /\ result'[p] # ErrResult("storage"))
         => /\ pc'[p] = "idle"
            /\ result'[p].ret = "Ok"
            /\ ~result'[p].success
            /\ result'[p].message # ""]_vars

\* C16: create_purchase does not touch an item whose is_active is false: no
\* step of the call changes the item's current_stock or cost_per_unit or
\* appends a movement for it.
C16_InactiveItemRejected ==
    [][\A p \in Procs :
         (pc[p] \in PurchasePcs /\ Steps(p))
         => \A i \in DOMAIN inventory :
               ~inventory[i].is_active
               => /\ inventory'[i].current_stock = inventory[i].current_stock
                  /\ inventory'[i].cost_per_unit = inventory[i].cost_per_unit
                  /\ \A k \in (Len(inventory_logs) + 1)..Len(inventory_logs') :
                       inventory_logs'[k].inventory_id # i]_vars

\* C17: a create_purchase call with a line of quantity <= 0 does not succeed,
\* and no step of a purchase lowers an item's current_stock.
C17_NonPositiveQuantityRefused ==
    [][\A p \in Procs :
         (pc[p] \in PurchasePcs /\ Steps(p))
         => /\ \A i \in DOMAIN inventory :
                 inventory'[i].current_stock >= inventory[i].current_stock
            /\ (pc[p] = "purchase_commit" /\ result'[p].success)
                 => \A k \in 1..Len(input[p].items) : input[p].items[k].quantity > 0]_vars

\* C18: complete_production_batch succeeds only with actual_yield >= 0, and a
\* completion never lowers an item's current_stock.
C18_NegativeYieldRefused ==
    [][\A p \in Procs :
         (pc[p] = "comp_commit" /\ pc'[p] = "idle" /\ result'[p].success)
         => /\ input[p].actual_yield >= 0
            /\ \A i \in DOMAIN inventory :
                 inventory'[i].current_stock >= inventory[i].current_stock]_vars

CompletePcs == {"comp_read", "comp_batch", "comp_stock", "comp_commit"}
LedgerPcs == PurchasePcs \cup CreatePcs \cup CompletePcs \cup FailPcs

UpdatePcs == {"uii_exists", "uii_check", "uii_update", "uii_commit"}

\* C20: update_inventory_item changes neither current_stock nor
\* reserved_stock of an existing item: the stock columns move only through
\* the ledger operations.
C20_StockOnlyThroughLedger ==
    [][\A p \in Procs :
         (pc[p] \in UpdatePcs /\ Steps(p))
         => \A i \in DOMAIN inventory :
               /\ i \in DOMAIN inventory'
               /\ inventory'[i].current_stock = inventory[i].current_stock
               /\ inventory'[i].reserved_stock = inventory[i].reserved_stock]_vars

DeletePcs == {"del_exists", "del_check", "del_delete"}
\* item i is an ingredient or the product of a committed in_progress batch
ReferencedByActiveBatch(i) ==
    \/ \E b \in DOMAIN production_batches :
         /\ production_batches[b].status = "in_progress"
         /\ production_batches[b].product_inventory_id = i
    \/ \E k \in 1..Len(production_batch_ingredients) :
         LET b == production_batch_ingredients[k].batch_id
         IN /\ production_batch_ingredients[k].ingredient_inventory_id = i
            /\ b \in DOMAIN production_batches
            /\ production_batches[b].status = "in_progress"

\* C21: delete_inventory_item of an item that an in_progress batch references, as
\* an ingredient or as its product, keeps the item and ends with success = false.
C21_DeleteRefusedWhileReferenced ==
    [][\A p \in Procs :
         (/\ pc[p] \in DeletePcs
          /\ Steps(p)
          /\ input[p].inventory_id \in DOMAIN inventory
          /\ ReferencedByActiveBatch(input[p].inventory_id))
         => /\ input[p].inventory_id \in DOMAIN inventory'
            /\ pc'[p] = "idle"
                 => \/ result'[p] = ErrResult("storage")
                    \/ result'[p].ret = "Ok" /\ ~result'[p].success]_vars

\* C22: the movement log is append-only: every step leaves each entry already
\* in the log in place and unchanged, and at most adds entries after them.
C22_LogAppendOnly ==
    [][/\ Len(inventory_logs') >= Len(inventory_logs)
       /\ SubSeq(inventory_logs', 1, Len(inventory_logs)) = inventory_logs]_vars

\* the sequence parts of the batches of a date that handler p reads
SequencePartsOf(p, date) ==
    LET rows == Overlay(production_batches, tx[p].batches)
    IN {rows[b].batch_number.nnn : b \in {c \in DOMAIN rows : rows[c].batch_number.date = date}}

\* a sequence part that reads as an integer of 32 bits
ParsesAsInteger(nnn) ==
    /\ nnn # <<>>
    /\ \A k \in 1..Len(nnn) : nnn[k] \in 0..9
    /\ ~ExceedsI32(nnn)

\* C23: on a day whose batch numbers are all well formed, the sequencer returns
\* the numerically highest sequence number of the day plus one, padded to three
\* digits, and 001 on a day without batches, whatever the number of batches
C23_SequencerNextNumber ==
    [][\A p \in Procs :
         (/\ pc[p] = "cpb_sequence" /\ pc'[p] = "cpb_insert"
          /\ \A nnn \in SequencePartsOf(p, today) : ParsesAsInteger(nnn))
         => LET values == {DigitsValue(nnn) : nnn \in SequencePartsOf(p, today)}
                highest == IF values = {} THEN 0
                           ELSE CHOOSE v \in values : \A w \in values : w <= v
            IN local'[p].batch_number = Some(FormatBatchNumber(today, highest + 1))]_vars

\* C24: when the highest batch number of the day has a sequence part that is not
\* an integer, or does not split into three parts, the sequencer goes on with
\* sequence 1 and the call does not end there (unless the read itself fails)
C24_CorruptSequenceDefaultsToOne ==
    [][\A p \in Procs :
         (/\ pc[p] = "cpb_sequence" /\ Steps(p)
          /\ result'[p] # ErrResult("storage")
          /\ IsSome(LastBatch(p, today))
          /\ ~ParsesAsInteger(LastBatch(p, today)[1].nnn))
         => /\ pc'[p] = "cpb_insert"
            /\ result'[p] = NoResult
            /\ local'[p].batch_number = Some([date |-> today, nnn |-> <<0, 0, 1>>])]_vars
C24_Witness ==
    /\ pc[1] = "cpb_insert"
    /\ local[1].batch_number = Some([date |-> today, nnn |-> <<0, 0, 1>>])
    /\ \E b \in DOMAIN production_batches :
         /\ production_batches[b].batch_number.date = today
         /\ production_batches[b].batch_number.nnn = <<0, 0, 2, Letter>>

\* C25: a create_production_batch call that loses the allocation of its batch
\* number to a concurrent caller (the number it computed has been committed by
\* another call when it inserts) tries again with a recomputed sequence; the
\* first conflict does not end the call
C25_ConflictRetried ==
    [][\A p \in Procs :
         (/\ pc[p] = "cpb_insert" /\ Steps(p)
          /\ result'[p] # ErrResult("storage")
          /\ \E b \in DOMAIN production_batches :
               production_batches[b].batch_number = local[p].batch_number[1])
         => pc'[p] # "idle"]_vars

\* C26: the row complete_production_batch writes holds yield_percentage =
\* actual_yield / batch_size * 100 (to the places the quotient is kept to) when
\* batch_size > 0 and 100 otherwise, and a production_time_hours >= 0
C26_YieldAndDuration ==
    [][\A p \in Procs :
         (pc[p] = "comp_batch" /\ pc'[p] = "comp_stock" /\ BatchExists(p, input[p].batch_id))
         => LET row == tx'[p].batches[input[p].batch_id]
                size == row.batch_size
                pct == row.yield_percentage[1]
                exact == input[p].actual_yield * 100 * DecimalScale
            IN /\ IsSome(row.yield_percentage) /\ IsSome(row.production_time_hours)
               /\ size > 0 => /\ pct * size <= exact + 100 * size
                              /\ pct * size >= exact - 100 * size
               /\ size <= 0 => pct = 100 * DecimalScale
               /\ row.production_time_hours[1] >= 0]_vars
C26_Witness ==
    \E b \in DOMAIN production_batches :
        LET row == production_batches[b]
        IN /\ row.status = "completed"
           /\ row.batch_size = MaxQty + 1
           /\ row.actual_yield = Some(MaxQty)
           /\ IsSome(row.yield_percentage)
           /\ row.production_time_hours = Some(HoursPerDay)

\* C27: no two active items share a name
C27_ActiveNamesUnique ==
    \A i, j \in DOMAIN inventory :
        (i # j /\ inventory[i].is_active /\ inventory[j].is_active)
        => inventory[i].name # inventory[j].name

\* C28: every ingredient row has quantity_used > 0, and the ingredient rows of
\* the batches only grow: a step keeps every row there is, unchanged and in
\* place, and adds rows for a new batch only
C28_IngredientRowsImmutable ==
    /\ [](\A k \in 1..Len(production_batch_ingredients) :
            production_batch_ingredients[k].quantity_used > 0)
    /\ [][/\ Len(production_batch_ingredients') >= Len(production_batch_ingredients)
          /\ SubSeq(production_batch_ingredients', 1, Len(production_batch_ingredients))
               = production_batch_ingredients
          /\ \A k \in (Len(production_batch_ingredients) + 1)..Len(production_batch_ingredients') :
               production_batch_ingredients'[k].batch_id \notin DOMAIN production_batches]_vars
C28_Witness ==
    /\ Len(production_batch_ingredients) >= 1
    /\ \E b \in DOMAIN production_batches : production_batches[b].status = "completed"
    /\ \E k \in 1..Len(inventory_logs) : inventory_logs[k].movement_type = "purchase"

\* C29: a ledger call that has begun its transaction comes to its end, and at
\* its end the transaction is closed: nothing is left pending, a call that
\* returns success has committed all it wrote, and any other return has left
\* the tables as they were
C29_CommitOrRollback ==
    /\ \A p \in {1} : (pc[p] # "idle") ~> (pc[p] = "idle")
    /\ [](\A p \in Procs : pc[p] = "idle" => tx[p] = NoTx)
    /\ [][\A p \in Procs :
            (pc[p] # "idle" /\ pc'[p] = "idle")
            => IF result'[p].success
               THEN /\ inventory' = Overlay(inventory, tx[p].inventory)
                    /\ inventory_logs' = inventory_logs \o tx[p].logs
                    /\ production_batches' = Overlay(production_batches, tx[p].batches)
                    /\ production_batch_ingredients'
                         = production_batch_ingredients \o tx[p].ingredients
               ELSE UNCHANGED db]_vars
C29_Witness ==
    /\ pc[1] = "idle" /\ tx[1] = NoTx
    /\ result[1] = OkResult(FALSE, "insufficient stock", None, None)
    /\ \E b \in DOMAIN production_batches : production_batches[b].status = "completed"

\* C30: for every batch there is at most one production_output movement with
\* its batch_number (the product's stock is raised with each such movement, so
\* at most once for the batch), however the complete_production_batch calls on
\* the batch interleave
C30_CompletedOnce ==
    \A b \in DOMAIN production_batches :
        Cardinality({k \in 1..Len(inventory_logs) :
                       /\ inventory_logs[k].movement_type = "production_output"
                       /\ inventory_logs[k].batch_number
                            = Some(production_batches[b].batch_number)}) <= 1

\* a call of complete_production_batch or fail_production_batch returned success
\* with this result
EndedBatch(r) == r.ret = "Ok" /\ r.success /\ r.message \in {"completed", "failed"}

\* C31: a batch is ended with success by at most one call: two handlers never
\* both hold a success of complete_production_batch or fail_production_batch for
\* the same batch (a batch ends once, so two such results can only come from
\* calls that overlapped)
C31_OneTerminalSuccess ==
    \A p, q \in Procs :
        (p # q /\ EndedBatch(result[p]) /\ EndedBatch(result[q]))
        => result[p].batch_id # result[q].batch_id

\* C32: every step of the ledger operations keeps, for every item, the
\* difference between current_stock and the sum of the item's movements: a
\* commit changes the stock by exactly the movements it appends
C32_LedgerOffsetKept ==
    [][\A i \in DOMAIN inventory :
         /\ i \in DOMAIN inventory'
         /\ inventory'[i].current_stock - MovementSum(inventory_logs', i)
              = inventory[i].current_stock - MovementSum(inventory_logs, i)]_vars
C32_Witness ==
    /\ \A p \in Procs : Idle(p)
    /\ \A type \in {"purchase", "production_use", "production_output"} :
         \E k \in 1..Len(inventory_logs) : inventory_logs[k].movement_type = type
    /\ \E i \in DOMAIN inventory : inventory[i].current_stock # MaxQty + 1

\* C33: no step of a ledger operation changes the reserved_stock of an item, and
\* no step of create_production_batch, complete_production_batch or
\* fail_production_batch changes the cost_per_unit of an item
C33_ReservedAndCostKept ==
    [][\A p \in Procs :
         (pc[p] \in LedgerPcs /\ Steps(p))
         => \A i \in DOMAIN inventory :
               /\ i \in DOMAIN inventory'
               /\ inventory'[i].reserved_stock = inventory[i].reserved_stock
               /\ pc[p] \notin PurchasePcs
                    => inventory'[i].cost_per_unit = inventory[i].cost_per_unit]_vars
C33_Witness ==
    \E i \in DOMAIN inventory :
        /\ inventory[i].reserved_stock = 1
        /\ inventory[i].cost_per_unit = Some(MaxCost)
        /\ \E k \in 1..Len(inventory_logs) :
             /\ inventory_logs[k].inventory_id = i
             /\ inventory_logs[k].movement_type \in {"production_use", "production_output"}
        /\ inventory_logs[Len(inventory_logs)].movement_type # "purchase"

\* the movements a step appends
AppendedLogs == {inventory_logs'[k] : k \in (Len(inventory_logs) + 1)..Len(inventory_logs')}

\* C34: a create_production_batch that commits changes the product's
\* current_stock by nothing but what its ingredient lines consume of the product
\* (nothing when the product is no ingredient) and appends no production_output
\* movement; a production_output movement is appended by the commit of a
\* complete_production_batch only
C34_ProductEntersOnCompletion ==
    [][/\ \A p \in Procs :
            (pc[p] = "cpb_commit" /\ pc'[p] = "idle" /\ result'[p].success)
            => LET product == input[p].product_inventory_id
               IN /\ inventory'[product].current_stock
                       = inventory[product].current_stock
                           - LineSum(input[p].ingredients, product, LAMBDA l : l.quantity_used)
                  /\ \A log \in AppendedLogs : log.movement_type # "production_output"
       /\ (\E log \in AppendedLogs : log.movement_type = "production_output")
            => \E p \in Procs : pc[p] = "comp_commit" /\ pc'[p] = "idle"]_vars
C34_Witness ==
    /\ result[1] = OkResult(TRUE, "created", result[1].batch_id, result[1].batch_number)
    /\ \E k \in 1..Len(production_batch_ingredients) :
         LET row == production_batch_ingredients[k]
         IN /\ row.batch_id = result[1].batch_id[1]
            /\ row.ingredient_inventory_id = production_batches[row.batch_id].product_inventory_id
    /\ \E l \in 1..Len(inventory_logs) : inventory_logs[l].movement_type = "production_output"

\* the ingredient rows of batch b for item i with quantity q, and the
\* production_use movements of -q for item i under a batch number
RowsOf(b, i, q) ==
    {k \in 1..Len(production_batch_ingredients) :
        /\ production_batch_ingredients[k].batch_id = b
        /\ production_batch_ingredients[k].ingredient_inventory_id = i
        /\ production_batch_ingredients[k].quantity_used = q}
UsesOf(bn, i, q) ==
    {k \in 1..Len(inventory_logs) :
        /\ inventory_logs[k].movement_type = "production_use"
        /\ inventory_logs[k].batch_number = Some(bn)
        /\ inventory_logs[k].inventory_id = i
        /\ inventory_logs[k].quantity = -q}

\* C35: for every batch, whatever its status, there are as many production_use
\* movements of -q for item i under its batch_number as it has ingredient rows
\* of quantity q for item i; every ingredient row belongs to a batch
C35_UsesMatchIngredientRows ==
    /\ \A k \in 1..Len(production_batch_ingredients) :
         production_batch_ingredients[k].batch_id \in DOMAIN production_batches
    /\ \A b \in DOMAIN production_batches :
         \A i \in DOMAIN inventory :
            \A q \in {production_batch_ingredients[k].quantity_used :
                        k \in 1..Len(production_batch_ingredients)}
                     \cup {-inventory_logs[k].quantity : k \in 1..Len(inventory_logs)} :
               Cardinality(RowsOf(b, i, q))
                 = Cardinality(UsesOf(production_batches[b].batch_number, i, q))

\* C36: with the calls running one after another, a creation that commits on a
\* day with k - 1 committed batches receives sequence number k, which is above
\* the number of every earlier batch of the day: calls that failed in between
\* used up no number
C36_GapFreeSequence ==
    [][\A p \in Procs :
         (pc[p] = "cpb_commit" /\ pc'[p] = "idle" /\ result'[p].success)
         => LET bn == result'[p].batch_number[1]
                earlier == {b \in DOMAIN production_batches :
                              production_batches[b].batch_number.date = bn.date}
            IN /\ bn = FormatBatchNumber(bn.date, Cardinality(earlier) + 1)
               /\ \A b \in earlier :
                    DigitsValue(production_batches[b].batch_number.nnn) < DigitsValue(bn.nnn)]_vars
C36_Witness ==
    /\ Cardinality(DOMAIN production_batches) = 10 ^ PadWidth
    /\ 1 \in DOMAIN production_batches
    /\ production_batches[1].batch_number = [date |-> 1, nnn |-> <<1, 0, 0, 0>>]
    /\ result[1].success
====
